---- MODULE Spec2Model ----
(***************************************************************************)
(* A model of the ray tracer of MCG_GFX_Framework/Main.cpp: the shapes and *)
(* their intersection tests, shading, RayTracer::TraceRay, Camera::GetRay  *)
(* and the control flow of main.                                           *)
(*                                                                         *)
(* Numbers.  A C++ float is modelled as an extended rational <<n, d>>:     *)
(*   d > 0, gcd(n, d) = 1   the finite value n/d, computed exactly;        *)
(*   <<1, 0>>, <<-1, 0>>    +infinity and -infinity;                       *)
(*   <<0, 0>>               NaN.                                           *)
(* The IEEE-754 rules for division by zero, infinities and NaN are kept,   *)
(* the rounding of finite results is not (signed zeros are not kept       *)
(* either).  A square root is never taken of an exact value unless the     *)
(* code truncates or rounds it: comparisons of lengths are decided on the  *)
(* squares, (int) sqrt(q) is the integer square root, and the shading      *)
(* path, whose values are irrational, is computed in fixed point with      *)
(* FxPrec steps per unit.                                                  *)
(***************************************************************************)
EXTENDS Integers, Sequences, FiniteSets, TLC

----------------------------------------------------------------------------
(* Integer helpers *)

Abs(n) == IF n < 0 THEN -n ELSE n

Sign(n) == IF n > 0 THEN 1 ELSE IF n < 0 THEN -1 ELSE 0

RECURSIVE GCD(_, _)
GCD(a, b) == IF b = 0 THEN a ELSE GCD(b, a % b)

LCM(a, b) == (a \div GCD(a, b)) * b

\* floor(sqrt(m)) for an integer m >= 0, by bisection on lo <= root < hi
RECURSIVE ISqrtIn(_, _, _)
ISqrtIn(m, lo, hi) ==
    IF hi - lo <= 1 THEN lo
    ELSE LET mid == (lo + hi) \div 2
         IN  IF mid * mid <= m THEN ISqrtIn(m, mid, hi) ELSE ISqrtIn(m, lo, mid)

ISqrt(m) == ISqrtIn(m, 0, (IF m < 46340 THEN m + 1 ELSE 46340))

----------------------------------------------------------------------------
(* float: extended rationals *)

NaN == <<0, 0>>
PInf == <<1, 0>>
NInf == <<-1, 0>>

\* the float n/d (d may be negative or zero)
Q(n, d) ==
    IF d = 0 THEN <<Sign(n), 0>>
    ELSE LET g == GCD(Abs(n), Abs(d))
         IN  <<(Sign(d) * n) \div g, Abs(d) \div g>>

\* an int converted to float
F(i) == <<i, 1>>

IsNaN(a) == a = NaN
IsInf(a) == a[2] = 0 /\ a[1] # 0
IsFinite(a) == a[2] # 0

FNeg(a) == <<-a[1], a[2]>>

FAdd(a, b) ==
    IF IsNaN(a) \/ IsNaN(b) THEN NaN
    ELSE IF IsInf(a) THEN (IF IsInf(b) /\ b # a THEN NaN ELSE a)
    ELSE IF IsInf(b) THEN b
    ELSE LET l == LCM(a[2], b[2])
         IN  Q(a[1] * (l \div a[2]) + b[1] * (l \div b[2]), l)

FSub(a, b) == FAdd(a, FNeg(b))

FMul(a, b) ==
    IF IsNaN(a) \/ IsNaN(b) THEN NaN
    ELSE IF IsInf(a) \/ IsInf(b)
         THEN (IF a[1] = 0 \/ b[1] = 0 THEN NaN ELSE <<Sign(a[1]) * Sign(b[1]), 0>>)
    ELSE LET g1 == GCD(Abs(a[1]), b[2])
             g2 == GCD(Abs(b[1]), a[2])
         IN  <<(a[1] \div g1) * (b[1] \div g2), (a[2] \div g2) * (b[2] \div g1)>>

FDiv(a, b) ==
    IF IsNaN(a) \/ IsNaN(b) THEN NaN
    ELSE IF IsInf(b) THEN (IF IsInf(a) THEN NaN ELSE F(0))
    ELSE IF b[1] = 0 THEN (IF a[1] = 0 THEN NaN ELSE <<Sign(a[1]), 0>>)
    ELSE FMul(a, <<Sign(b[1]) * b[2], Abs(b[1])>>)

\* a < b; false as soon as one side is NaN
FLt(a, b) ==
    IF IsNaN(a) \/ IsNaN(b) THEN FALSE
    ELSE IF IsInf(a) THEN a[1] = -1 /\ b # a
    ELSE IF IsInf(b) THEN b[1] = 1
    ELSE LET l == LCM(a[2], b[2])
         IN  a[1] * (l \div a[2]) < b[1] * (l \div b[2])

\* a <= b; false as soon as one side is NaN
FLe(a, b) == ~IsNaN(a) /\ ~IsNaN(b) /\ (a = b \/ FLt(a, b))

\* a >= b
FGe(a, b) == FLe(b, a)

\* float to int of a finite value: truncation toward zero
Trunc(a) == Sign(a[1]) * (Abs(a[1]) \div a[2])

\* float to int.  The conversion of NaN or an infinity is undefined
\* behaviour: it yields whatever int ub the build produces.
ToInt(a, ub) == IF IsFinite(a) THEN Trunc(a) ELSE ub

----------------------------------------------------------------------------
(* glm::vec3 and glm::vec2: tuples of floats *)

V3(x, y, z) == <<F(x), F(y), F(z)>>
V2(x, y) == <<F(x), F(y)>>

Zero3 == V3(0, 0, 0)

VAdd(u, v) == <<FAdd(u[1], v[1]), FAdd(u[2], v[2]), FAdd(u[3], v[3])>>
VSub(u, v) == <<FSub(u[1], v[1]), FSub(u[2], v[2]), FSub(u[3], v[3])>>
VScale(u, k) == <<FMul(u[1], k), FMul(u[2], k), FMul(u[3], k)>>
V2Add(u, v) == <<FAdd(u[1], v[1]), FAdd(u[2], v[2])>>

\* glm::dot
Dot(u, v) == FAdd(FAdd(FMul(u[1], v[1]), FMul(u[2], v[2])), FMul(u[3], v[3]))

\* the square of glm::length(v)
Len2(v) == Dot(v, v)

VFinite(v) == IsFinite(v[1]) /\ IsFinite(v[2]) /\ IsFinite(v[3])

----------------------------------------------------------------------------
(* Lengths.  glm::length(v) is sqrt(dot(v, v)); sqrt is monotone, so a     *)
(* comparison of two lengths is the comparison of their squares, and a     *)
(* NaN or infinite square gives a NaN or infinite length.                  *)

\* glm::length(u) < glm::length(v)
LengthLt(u, v) == FLt(Len2(u), Len2(v))

\* glm::length(v) <= r
LengthLe(v, r) == FLe(Len2(v), FMul(r, r)) /\ FGe(r, F(0))

\* (int) glm::length(v), for a finite v: the length truncated
LengthTrunc(v) == LET q == Len2(v) IN ISqrt(q[1] \div q[2])

----------------------------------------------------------------------------
(* Ray, HitData and the shapes *)

Ray(origin, direction) == [mOrigin |-> origin, mDirection |-> direction]

HitData(hit, point) == [mHit |-> hit, mFirstIntersection |-> point]

\* One record type for the four subclasses of BaseShape; a field a subclass
\* does not have is zero.
Shape(kind, pos, colour, radius, width, height, a, b, c) ==
    [kind |-> kind, mPos |-> pos, mColour |-> colour, mRadius |-> radius,
     mWidth |-> width, mHeight |-> height, mAPos |-> a, mBPos |-> b, mCPos |-> c]

Sphere(pos, radius, colour) ==
    Shape("Sphere", pos, colour, radius, F(0), F(0), V2(0, 0), V2(0, 0), V2(0, 0))

Rectangle(pos, width, height, colour) ==
    Shape("Rectangle", pos, colour, F(0), width, height, V2(0, 0), V2(0, 0), V2(0, 0))

Circle(pos, radius, colour) ==
    Shape("Circle", pos, colour, radius, F(0), F(0), V2(0, 0), V2(0, 0), V2(0, 0))

Triangle(z, aPos, bPos, cPos, colour) ==
    Shape("Triangle", <<F(0), F(0), z>>, colour, F(0), F(0), F(0), aPos, bPos, cPos)

\* int Sphere::GetRadius(): the float radius converted to int
GetRadius(sphere) == Trunc(sphere.mRadius)

----------------------------------------------------------------------------
(* The intersection tests.  ub = <<ubx, uby>> are the ints an undefined    *)
(* float-to-int conversion yields.                                         *)

get_point_at_z(ray, z) ==
    LET origin == ray.mOrigin
        direction == ray.mDirection
        travel_distance == FSub(z, origin[3])
        vector_multiplier == FDiv(travel_distance, direction[3])
    IN  VAdd(origin, VScale(direction, vector_multiplier))

\* the ints are small here, so no product overflows
area_of_triangle(x1, y1, x2, y2, x3, y3) ==
    Q(Abs(x1 * (y2 - y3) + x2 * (y3 - y1) + x3 * (y1 - y2)), 2)

point_inside_triangle(x1, y1, x2, y2, x3, y3, px, py) ==
    LET A == area_of_triangle(x1, y1, x2, y2, x3, y3)
        A1 == area_of_triangle(px, py, x2, y2, x3, y3)
        A2 == area_of_triangle(x1, y1, px, py, x3, y3)
        A3 == area_of_triangle(x1, y1, x2, y2, px, py)
    IN  A = FAdd(FAdd(A1, A2), A3)

\* the rest of get_ray_triangle_intersection once intersect_point is
\* known; the float arguments are converted to the int parameters of
\* point_inside_triangle
TriangleHitAt(intersect_point, pointA, pointB, pointC, ub) ==
    HitData(point_inside_triangle(Trunc(pointA[1]), Trunc(pointA[2]),
                                  Trunc(pointB[1]), Trunc(pointB[2]),
                                  Trunc(pointC[1]), Trunc(pointC[2]),
                                  ToInt(intersect_point[1], ub[1]),
                                  ToInt(intersect_point[2], ub[2])),
            intersect_point)

get_ray_triangle_intersection(ray, z, pointA, pointB, pointC, ub) ==
    TriangleHitAt(get_point_at_z(ray, z), pointA, pointB, pointC, ub)

\* A faulty variant of RectangleHitAt, the right bound exclusive: C5 tells
\* it from the code.
RectangleHitAt_exclusive(intersect_point, rect_pos, rect_width, rect_height) ==
    LET left_bd == FSub(rect_pos[1], FDiv(rect_width, F(2)))
        right_bd == FAdd(rect_pos[1], FDiv(rect_width, F(2)))
        upper_bd == FSub(rect_pos[2], FDiv(rect_height, F(2)))
        lower_bd == FAdd(rect_pos[2], FDiv(rect_height, F(2)))
    IN  HitData(/\ FGe(intersect_point[1], left_bd)
                /\ FLt(intersect_point[1], right_bd)
                /\ FGe(intersect_point[2], upper_bd)
                /\ FLe(intersect_point[2], lower_bd),
                intersect_point)

\* the rest of get_ray_rectangle_intersection once intersect_point is known
RectangleHitAt(intersect_point, rect_pos, rect_width, rect_height) ==
    LET left_bd == FSub(rect_pos[1], FDiv(rect_width, F(2)))
        right_bd == FAdd(rect_pos[1], FDiv(rect_width, F(2)))
        upper_bd == FSub(rect_pos[2], FDiv(rect_height, F(2)))
        lower_bd == FAdd(rect_pos[2], FDiv(rect_height, F(2)))
    IN  HitData(/\ FGe(intersect_point[1], left_bd)
                /\ FLe(intersect_point[1], right_bd)
                /\ FGe(intersect_point[2], upper_bd)
                /\ FLe(intersect_point[2], lower_bd),
                intersect_point)

get_ray_rectangle_intersection(ray, rect_pos, rect_width, rect_height) ==
    RectangleHitAt(get_point_at_z(ray, rect_pos[3]), rect_pos, rect_width, rect_height)

\* the rest of get_ray_circle_intersection once rect_hitdata is known
CircleHitFrom(rect_hitdata, circle_pos, circle_radius) ==
    IF /\ rect_hitdata.mHit
       /\ LengthLe(VSub(rect_hitdata.mFirstIntersection, circle_pos), circle_radius)
    THEN rect_hitdata
    ELSE HitData(FALSE, Zero3)

get_ray_circle_intersection(ray, circle_pos, circle_radius) ==
    CircleHitFrom(get_ray_rectangle_intersection(ray, circle_pos,
                      FMul(circle_radius, F(2)), FMul(circle_radius, F(2))),
                  circle_pos, circle_radius)

\* A faulty variant of check_inside_sphere, < for <=: C4 tells it from the
\* code.
check_inside_sphere_strict(sphere, queryPoint) ==
    LET distanceToCentre == LengthTrunc(VSub(sphere.mPos, queryPoint))
    IN  distanceToCentre < GetRadius(sphere)

check_inside_sphere(sphere, queryPoint) ==
    LET distanceToCentre == LengthTrunc(VSub(sphere.mPos, queryPoint))
    IN  distanceToCentre <= GetRadius(sphere)

\* p / q < 0.001^2 - 0.001^4 / 4 = 1 / 1000000.25..., for ints 0 < p <= q,
\* without leaving 32 bits
RatioBelowMargin(p, q) ==
    IF q \div p > 1000000 THEN TRUE
    ELSE IF q \div p < 1000000 THEN FALSE
    ELSE 4 * (q % p) > p

\* margin < 0.001 from uw = u.w and L = |u|^2 |w|^2, for u the direction
\* and w the vector to the query point: margin^2 = |normalize(u) -
\* normalize(w)|^2 = 2 - 2 cos(u, w), so margin < 0.001 iff u.w > 0 and
\* sin^2(u, w) = (L - uw^2) / L is below 0.001^2 - 0.001^4 / 4.  A zero u
\* or w normalizes to NaN, and a NaN margin is not below 0.001.
MarginBelow(uw, L) ==
    /\ IsFinite(L)
    /\ IsFinite(uw)
    /\ L[1] > 0
    /\ uw[1] > 0
    /\ IF FSub(L, FMul(uw, uw))[1] <= 0 THEN TRUE
       ELSE RatioBelowMargin(FDiv(FSub(L, FMul(uw, uw)), L)[1],
                             FDiv(FSub(L, FMul(uw, uw)), L)[2])

check_ahead_ray(ray, queryPoint) ==
    MarginBelow(Dot(ray.mDirection, VSub(queryPoint, ray.mOrigin)),
                FMul(Len2(ray.mDirection), Len2(VSub(queryPoint, ray.mOrigin))))

get_closest_point_on_line(line, queryPoint) ==
    LET a == line.mOrigin
        n == line.mDirection
        P == queryPoint
    IN  VAdd(a, VScale(n, Dot(VSub(P, a), n)))

\* int x = sqrt(pow(sphereRadius, 2) - pow(d, 2)), from under = the
\* argument of sqrt: the sqrt of a negative number is NaN, and its
\* conversion to int is undefined
HalfChord(under, ub) ==
    IF FGe(under, F(0)) THEN ISqrt(under[1] \div under[2]) ELSE ub[1]

\* the rest of get_ray_sphere_intersection once closestPoint, d (as its
\* square d2 = pow(d, 2)) and x are known
SphereHitFrom(ray, sphere, sphereRadius, closestPoint, d2, x) ==
    IF check_inside_sphere(sphere, ray.mOrigin) THEN HitData(FALSE, Zero3)
    ELSE IF ~check_ahead_ray(ray, closestPoint) THEN HitData(FALSE, Zero3)
    ELSE IF FLe(d2, F(sphereRadius * sphereRadius)) /\ sphereRadius >= 0
         THEN HitData(TRUE, VAdd(ray.mOrigin,
                  VScale(ray.mDirection,
                         FSub(Dot(VSub(sphere.mPos, ray.mOrigin), ray.mDirection), F(x)))))
         ELSE HitData(FALSE, Zero3)

SphereHitAt(ray, sphere, sphereRadius, closestPoint, d2, ub) ==
    SphereHitFrom(ray, sphere, sphereRadius, closestPoint, d2,
                  HalfChord(FSub(F(sphereRadius * sphereRadius), d2), ub))

SphereHitNear(ray, sphere, closestPoint, ub) ==
    SphereHitAt(ray, sphere, GetRadius(sphere), closestPoint,
                Len2(VSub(sphere.mPos, closestPoint)), ub)

get_ray_sphere_intersection(ray, sphere, ub) ==
    SphereHitNear(ray, sphere, get_closest_point_on_line(ray, sphere.mPos), ub)

\* the virtual BaseShape::GetHit of the four subclasses
GetHit(shape, ray, ub) ==
    CASE shape.kind = "Triangle" ->
            LET posAdj == <<shape.mPos[1], shape.mPos[2]>>
            IN  get_ray_triangle_intersection(ray, shape.mPos[3],
                    V2Add(shape.mAPos, posAdj), V2Add(shape.mBPos, posAdj),
                    V2Add(shape.mCPos, posAdj), ub)
      [] shape.kind = "Rectangle" ->
            get_ray_rectangle_intersection(ray, shape.mPos, shape.mWidth, shape.mHeight)
      [] shape.kind = "Circle" ->
            get_ray_circle_intersection(ray, shape.mPos, shape.mRadius)
      [] shape.kind = "Sphere" ->
            get_ray_sphere_intersection(ray, shape, ub)

----------------------------------------------------------------------------
(* Shading.  The values are irrational in general, so sqrt and normalize   *)
(* round to the fixed-point grid of FxPrec steps per unit (a float rounds  *)
(* to 24 significant bits); a square root that is exact stays exact.       *)

FxPrec == 100

\* a finite float rounded to the nearest grid point
RoundF(a) ==
    IF ~IsFinite(a) THEN a
    ELSE Q((2 * a[1] * FxPrec + a[2]) \div (2 * a[2]), FxPrec)

\* sqrt of a float
SqrtF(a) ==
    IF IsNaN(a) \/ a[1] < 0 THEN NaN
    ELSE IF IsInf(a) THEN PInf
    ELSE Q(ISqrt((a[1] * FxPrec * FxPrec) \div a[2]), FxPrec)

\* glm::length
Length(v) == SqrtF(Len2(v))

\* glm::normalize: the zero vector gives 0/0 = NaN in each component
NormalizeBy(v, l) ==
    <<RoundF(FDiv(v[1], l)), RoundF(FDiv(v[2], l)), RoundF(FDiv(v[3], l))>>

Normalize(v) == NormalizeBy(v, Length(v))

get_direction_difference(dir1, dir2) ==
    LET n_dir1 == Normalize(dir1)
        n_dir2 == Normalize(dir2)
    IN  FDiv(Length(VSub(n_dir1, n_dir2)), F(2))

get_normal_on_sphere(sphere, queryPoint) ==
    Normalize(VSub(queryPoint, sphere.mPos))

\* pow(1 - dif, 2)
Brightness(dif) == FMul(FSub(F(1), dif), FSub(F(1), dif))

\* the virtual BaseShape::GetColourModifier of the four subclasses
GetColourModifier(shape, lightDirection, intersectionPoint) ==
    IF shape.kind = "Sphere"
    THEN Brightness(get_direction_difference(lightDirection,
                        get_normal_on_sphere(shape, intersectionPoint)))
    ELSE Brightness(get_direction_difference(lightDirection, V3(0, 0, -1)))

----------------------------------------------------------------------------
(* Scene and RayTracer *)

Scene(lightDirection) == [mLightDirection |-> lightDirection, mShapes |-> <<>>]

\* Scene::AddSphere, AddRectangle, AddCircle, AddTriangle: push_back
AddShape(scene, shape) == [scene EXCEPT !.mShapes = Append(@, shape)]

SceneGetColourModifier(scene, shape, intersectionPoint) ==
    GetColourModifier(shape, scene.mLightDirection, intersectionPoint)

get_length_between_points_lt(p1, p2, q1, q2) == LengthLt(VSub(p1, p2), VSub(q1, q2))

\* the condition of the inner if of TraceRay: the current hit replaces the
\* closest one
ReplacesClosest(currentHitData, closestHit, ray) ==
    \/ ~closestHit.mHit
    \/ get_length_between_points_lt(currentHitData.mFirstIntersection, ray.mOrigin,
                                    closestHit.mFirstIntersection, ray.mOrigin)

\* the loop of TraceRay from the i-th shape on; closestShape is an index
\* into the list, 0 while the pointer is uninitialised
RECURSIVE TraceLoop(_, _, _, _, _, _)
TraceLoop(shapes, ray, ub, i, closestHit, closestShape) ==
    IF i > Len(shapes) THEN [closestHit |-> closestHit, closestShape |-> closestShape]
    ELSE LET currentHitData == GetHit(shapes[i], ray, ub)
         IN  IF currentHitData.mHit /\ ReplacesClosest(currentHitData, closestHit, ray)
             THEN TraceLoop(shapes, ray, ub, i + 1, currentHitData, i)
             ELSE TraceLoop(shapes, ray, ub, i + 1, closestHit, closestShape)

\* the end of TraceRay, after the loop
TraceResult(currentScene, closestHit, closestShape) ==
    IF closestHit.mHit
    THEN VScale(currentScene.mShapes[closestShape].mColour,
                SceneGetColourModifier(currentScene, currentScene.mShapes[closestShape],
                                       closestHit.mFirstIntersection))
    ELSE Zero3

TraceEnd(currentScene, end) == TraceResult(currentScene, end.closestHit, end.closestShape)

TraceRay(currentScene, ray, ub) ==
    TraceEnd(currentScene,
             TraceLoop(currentScene.mShapes, ray, ub, 1, HitData(FALSE, Zero3), 0))

----------------------------------------------------------------------------
(* Camera *)

Camera(windowSize, viewingSize) ==
    [mWindowSize |-> windowSize,
     mWindowCentre |-> <<windowSize[1] \div 2, windowSize[2] \div 2>>,
     mViewingSize |-> viewingSize,
     mXViewMultiplier |-> Q(viewingSize[1], windowSize[1]),
     mYViewMultiplier |-> Q(viewingSize[2], windowSize[2]),
     mXViewOffset |-> Q(viewingSize[1] - windowSize[1], 2),
     mYViewOffset |-> Q(viewingSize[2] - windowSize[2], 2)]

GetRay(camera, pixelPosition) ==
    LET source == <<F(pixelPosition[1]), F(pixelPosition[2]), F(-1)>>
        lead == <<FSub(FMul(F(pixelPosition[1]), camera.mXViewMultiplier), camera.mXViewOffset),
                  FSub(FMul(F(pixelPosition[2]), camera.mYViewMultiplier), camera.mYViewOffset),
                  F(20)>>
    IN  Ray(source, Normalize(VSub(lead, source)))

----------------------------------------------------------------------------
(* Bounds and input sets *)

\* the window of main is 640 x 480; the model renders a smaller one
WinW == 2
WinH == 2

\* longest shape list built
MaxShapes == 2

windowSize == <<WinW, WinH>>

\* main's viewing size is 672 x 504 for the 640 x 480 window: the same
\* ratio, in the ints of a glm::ivec2
viewingSize == <<(WinW * 672) \div 640, (WinH * 504) \div 480>>

Pixels == (0 .. WinW - 1) \X (0 .. WinH - 1)

\* the ints an undefined float-to-int conversion may yield
UbInts == {-1, 0}
UbPairs == UbInts \X UbInts

\* the values MCG::ShowAndHold may return
ExitCodes == {0, 1}

Red == V3(1, 0, 0)
Green == V3(0, 1, 0)
Blue == V3(0, 0, 1)
Yellow == V3(1, 1, 0)
Cyan == V3(0, 1, 1)
Magenta == V3(1, 0, 1)
White == V3(1, 1, 1)
Grey == <<Q(128, 255), Q(128, 255), Q(128, 255)>>

\* light directions read by get_light_direction_from_user
Lights == {V3(0, 0, -1), V3(1, -1, -1)}

\* what the menu of main can add: positions and sizes are ints, colours
\* are ints divided by 255
UserRectangles == {Rectangle(V3(0, 0, 3), F(2), F(2), Red), Rectangle(V3(1, 1, 2), F(2), F(4), Grey)}
UserTriangles == {Triangle(F(6), V2(0, 0), V2(2, 0), V2(0, 2), White)}
UserCircles == {Circle(V3(0, 1, 2), F(1), Blue)}
UserSpheres == {Sphere(V3(1, 1, 4), F(1), Green), Sphere(V3(0, 0, 3), F(2), Yellow)}

\* the shapes a caller of Scene can add: any floats
FnSpheres ==
    {Sphere(V3(0, 0, 10), F(2), Red),
     Sphere(V3(0, 0, 10), Q(3, 2), Green),
     Sphere(V3(0, 0, 10), Q(-1, 2), Blue)}
FnRectangles ==
    {Rectangle(V3(0, 0, 5), F(2), F(2), Yellow),
     Rectangle(V3(1, 0, 5), F(2), F(2), Cyan),
     Rectangle(V3(0, 0, 5), F(0), F(2), Grey)}
FnCircles == {Circle(V3(0, 0, 5), F(1), Magenta)}
FnTriangles == {Triangle(F(5), V2(0, 0), V2(4, 0), V2(0, 4), White)}

FnOrigins ==
    {V3(0, 0, 0), V3(1, 0, 0), V3(1, 1, 0), V3(2, 0, 0), V3(0, 0, 5), V3(0, 0, 9),
     V3(0, 0, 13), V3(-5, 0, 10), <<Q(-1, 2), F(1), F(0)>>, <<F(0), F(0), Q(15, 2)>>,
     V3(0, -3, 6)}

\* unit vectors
FnDirections ==
    {V3(0, 0, 1), V3(0, 0, -1), V3(1, 0, 0), <<F(0), Q(3, 5), Q(4, 5)>>}

FnRays == {Ray(o, d) : o \in FnOrigins, d \in FnDirections}

\* the light directions, shapes and rays of the shading of one shape
ShadeLights ==
    {V3(0, 0, -1), V3(0, 0, -3), V3(0, 0, 1), V3(1, -1, -1), V3(1, 0, 0), V3(-1, 0, 0),
     V3(0, -3, -4), V3(0, 3, 4)}
ShadeShapes ==
    {Sphere(V3(0, 0, 10), F(2), Red),
     Sphere(V3(0, 0, 10), Q(1, 2), Green),
     Rectangle(V3(0, 0, 5), F(2), F(2), Yellow),
     Circle(V3(0, 0, 5), F(1), Magenta),
     Triangle(F(5), V2(0, 0), V2(4, 0), V2(0, 4), White)}
ShadeRays ==
    {Ray(V3(0, 0, 0), V3(0, 0, 1)),
     Ray(V3(1, 1, 0), V3(0, 0, 1)),
     Ray(V3(0, -3, 6), <<F(0), Q(3, 5), Q(4, 5)>>),
     Ray(V3(-5, 0, 10), V3(1, 0, 0)),
     Ray(V3(0, 0, 13), V3(0, 0, -1))}

----------------------------------------------------------------------------
(* State *)

VARIABLES
    pc,             \* where main is: "init", "background", "pixel", "light",
                    \* "menu", "render", "exit"; "fn", "fnReady", "fnTraced"
                    \* when the classes are used directly; "shade",
                    \* "shadeHit", "shaded" when one shape is shaded
    calls,          \* the calls made so far to MCG, Scene and RayTracer, in order
    mcgInit,        \* what MCG::Init returned: "true", "false", or "uncalled"
    showAndHold,    \* the values MCG::ShowAndHold returned, one per call
    prompted,       \* the console has prompted for input
    exitCode,       \* the value main returned, once pc = "exit"
    scene,          \* main's local Scene
    mCurrentScene,  \* RayTracer::mCurrentScene
    x, y,           \* the counters of the render loop
    frame,          \* the framebuffer: pixel -> colour
    drawn,          \* pixel -> number of DrawPixel calls of the render loop
    currentRay,     \* the ray last traced
    hitData,        \* what GetHit gave for it, shape by shape
    pixelColour,    \* the colour last computed
    colourModifier  \* what Scene::GetColourModifier last returned to a direct caller

\* the process and its console
procVars == <<mcgInit, showAndHold, prompted, exitCode>>
\* the render loop and the framebuffer
loopVars == <<x, y, frame, drawn>>
\* the last trace
traceVars == <<currentRay, hitData, pixelColour, colourModifier>>

vars == <<pc, calls, scene, mCurrentScene, procVars, loopVars, traceVars>>

InitCommon ==
    /\ calls = <<>>
    /\ mcgInit = "uncalled"
    /\ showAndHold = <<>>
    /\ prompted = FALSE
    /\ exitCode = 0
    /\ x = 0
    /\ y = 0
    /\ frame = [p \in Pixels |-> Zero3]
    /\ drawn = [p \in Pixels |-> 0]
    /\ currentRay = Ray(Zero3, Zero3)
    /\ hitData = <<>>
    /\ pixelColour = Zero3
    /\ colourModifier = F(0)
    \* RayTracer() : mCurrentScene(glm::vec3(1, -1, -1))
    /\ mCurrentScene = Scene(V3(1, -1, -1))

\* main is entered
Init ==
    /\ pc = "init"
    /\ scene = Scene(Zero3)
    /\ InitCommon

Range(seq) == {seq[i] : i \in 1 .. Len(seq)}

----------------------------------------------------------------------------
(* Scene and RayTracer operations, used by main and by direct callers *)

\* The lists enumerated hold distinct shapes, at most MaxShapes of them.
CanAdd == Len(scene.mShapes) < MaxShapes

\* scene.AddSphere(...) with the parameters of a shape of the pool
AddSphere(pool) ==
    /\ pc \in {"menu", "fn"}
    /\ CanAdd
    /\ \E s \in pool \ Range(scene.mShapes) : scene' = AddShape(scene, s)
    /\ calls' = Append(calls, "AddSphere")
    /\ UNCHANGED <<pc, mCurrentScene, procVars, loopVars, traceVars>>

\* scene.AddRectangle(...) with the parameters of a shape of the pool
AddRectangle(pool) ==
    /\ pc \in {"menu", "fn"}
    /\ CanAdd
    /\ \E s \in pool \ Range(scene.mShapes) : scene' = AddShape(scene, s)
    /\ calls' = Append(calls, "AddRectangle")
    /\ UNCHANGED <<pc, mCurrentScene, procVars, loopVars, traceVars>>

\* scene.AddCircle(...) with the parameters of a shape of the pool
AddCircle(pool) ==
    /\ pc \in {"menu", "fn"}
    /\ CanAdd
    /\ \E s \in pool \ Range(scene.mShapes) : scene' = AddShape(scene, s)
    /\ calls' = Append(calls, "AddCircle")
    /\ UNCHANGED <<pc, mCurrentScene, procVars, loopVars, traceVars>>

\* scene.AddTriangle(...) with the parameters of a shape of the pool
AddTriangle(pool) ==
    /\ pc \in {"menu", "fn"}
    /\ CanAdd
    /\ \E s \in pool \ Range(scene.mShapes) : scene' = AddShape(scene, s)
    /\ calls' = Append(calls, "AddTriangle")
    /\ UNCHANGED <<pc, mCurrentScene, procVars, loopVars, traceVars>>

\* rayTracer.SetScene(scene): the scene is copied into the tracer.  In main
\* this is menu option 5, the construction of the tracer and the entry of
\* the render loop.
SetScene ==
    /\ pc \in {"menu", "fn"}
    /\ mCurrentScene' = scene
    /\ calls' = Append(calls, "SetScene")
    /\ pc' = IF pc = "menu" THEN "render" ELSE "fnReady"
    /\ x' = 0
    /\ y' = 0
    /\ UNCHANGED <<scene, procVars, frame, drawn, traceVars>>

----------------------------------------------------------------------------
(* main *)

\* A faulty variant of MCGInitFails, the return missing so that main goes
\* on to draw: C9 tells it from the code.
MCGInitFallsThrough ==
    /\ pc = "init"
    /\ calls' = Append(calls, "Init")
    /\ mcgInit' = "false"
    /\ pc' = "background"
    /\ UNCHANGED <<scene, mCurrentScene, showAndHold, prompted, exitCode, loopVars,
                   traceVars>>

\* MCG::Init returns false: return -1
MCGInitFails ==
    /\ pc = "init"
    /\ calls' = Append(calls, "Init")
    /\ mcgInit' = "false"
    /\ exitCode' = -1
    /\ pc' = "exit"
    /\ UNCHANGED <<scene, mCurrentScene, showAndHold, prompted, loopVars, traceVars>>

MCGInitOk ==
    /\ pc = "init"
    /\ calls' = Append(calls, "Init")
    /\ mcgInit' = "true"
    /\ pc' = "background"
    /\ UNCHANGED <<scene, mCurrentScene, showAndHold, prompted, exitCode, loopVars,
                   traceVars>>

\* MCG::SetBackground(glm::vec3(0, 0, 0))
SetBackground ==
    /\ pc = "background"
    /\ frame' = [p \in Pixels |-> Zero3]
    /\ calls' = Append(calls, "SetBackground")
    /\ pc' = "pixel"
    /\ UNCHANGED <<scene, mCurrentScene, procVars, x, y, drawn, traceVars>>

\* the red pixel drawn at windowSize / 2 before the scene is set up
DrawCentrePixel ==
    /\ pc = "pixel"
    /\ frame' = [frame EXCEPT ![<<windowSize[1] \div 2, windowSize[2] \div 2>>] = V3(1, 0, 0)]
    /\ pixelColour' = V3(1, 0, 0)
    /\ calls' = Append(calls, "DrawPixel")
    /\ pc' = "light"
    /\ UNCHANGED <<scene, mCurrentScene, procVars, x, y, drawn, currentRay, hitData,
                   colourModifier>>

\* get_light_direction_from_user and Scene scene(light_direction)
ReadLight ==
    /\ pc = "light"
    /\ \E l \in Lights : scene' = Scene(l)
    /\ prompted' = TRUE
    /\ pc' = "menu"
    /\ UNCHANGED <<calls, mCurrentScene, mcgInit, showAndHold, exitCode, loopVars,
                   traceVars>>

\* A faulty variant of RenderPixel, the trace consuming the first shape of
\* the tracer's scene: C10 tells it from the code.
RenderPixelMutating ==
    /\ pc = "render"
    /\ x < WinW
    /\ currentRay' = GetRay(Camera(windowSize, viewingSize), <<x, y>>)
    /\ \E ub \in UbPairs : pixelColour' = TraceRay(mCurrentScene, currentRay', ub)
    /\ mCurrentScene' = [mCurrentScene EXCEPT !.mShapes = IF @ = <<>> THEN @ ELSE Tail(@)]
    /\ frame' = [frame EXCEPT ![<<x, y>>] = pixelColour']
    /\ drawn' = [drawn EXCEPT ![<<x, y>>] = @ + 1]
    /\ calls' = Append(Append(calls, "TraceRay"), "DrawPixel")
    /\ IF y + 1 < WinH THEN x' = x /\ y' = y + 1 ELSE x' = x + 1 /\ y' = 0
    /\ UNCHANGED <<pc, scene, procVars, hitData, colourModifier>>

\* A faulty variant of RenderPixel, the loop passing over the pixel at
\* windowSize / 2 that was drawn before: C12 tells it from the code.
RenderPixelKeepsCentre ==
    /\ pc = "render"
    /\ x < WinW
    /\ currentRay' = GetRay(Camera(windowSize, viewingSize), <<x, y>>)
    /\ \E ub \in UbPairs : pixelColour' = TraceRay(mCurrentScene, currentRay', ub)
    /\ IF <<x, y>> = <<windowSize[1] \div 2, windowSize[2] \div 2>>
       THEN /\ calls' = Append(calls, "TraceRay")
            /\ UNCHANGED <<frame, drawn>>
       ELSE /\ frame' = [frame EXCEPT ![<<x, y>>] = pixelColour']
            /\ drawn' = [drawn EXCEPT ![<<x, y>>] = @ + 1]
            /\ calls' = Append(Append(calls, "TraceRay"), "DrawPixel")
    /\ IF y + 1 < WinH THEN x' = x /\ y' = y + 1 ELSE x' = x + 1 /\ y' = 0
    /\ UNCHANGED <<pc, scene, mCurrentScene, procVars, hitData, colourModifier>>

\* one turn of the inner loop of the render loop, and the step to the next
\* pixel
RenderPixel ==
    /\ pc = "render"
    /\ x < WinW
    /\ currentRay' = GetRay(Camera(windowSize, viewingSize), <<x, y>>)
    /\ \E ub \in UbPairs : pixelColour' = TraceRay(mCurrentScene, currentRay', ub)
    /\ frame' = [frame EXCEPT ![<<x, y>>] = pixelColour']
    /\ drawn' = [drawn EXCEPT ![<<x, y>>] = @ + 1]
    /\ calls' = Append(Append(calls, "TraceRay"), "DrawPixel")
    /\ IF y + 1 < WinH THEN x' = x /\ y' = y + 1 ELSE x' = x + 1 /\ y' = 0
    /\ UNCHANGED <<pc, scene, mCurrentScene, procVars, hitData, colourModifier>>

\* return MCG::ShowAndHold()
ShowAndHold ==
    /\ pc = "render"
    /\ x >= WinW
    /\ \E code \in ExitCodes :
          /\ showAndHold' = Append(showAndHold, code)
          /\ exitCode' = code
    /\ calls' = Append(calls, "ShowAndHold")
    /\ pc' = "exit"
    /\ UNCHANGED <<scene, mCurrentScene, mcgInit, prompted, loopVars, traceVars>>

\* An option other than "1" to "5" changes nothing and shows the menu again.
Next ==
    \/ MCGInitFails
    \/ MCGInitOk
    \/ SetBackground
    \/ DrawCentrePixel
    \/ ReadLight
    \/ AddRectangle(UserRectangles)
    \/ AddTriangle(UserTriangles)
    \/ AddCircle(UserCircles)
    \/ AddSphere(UserSpheres)
    \/ SetScene
    \/ RenderPixel
    \/ ShowAndHold

Spec == Init /\ [][Next]_vars

----------------------------------------------------------------------------
(* The classes used directly: a scene is built from any shapes, handed to  *)
(* a RayTracer, and one ray is traced.                                     *)

FnInit ==
    /\ pc = "fn"
    /\ scene \in {Scene(l) : l \in Lights}
    /\ InitCommon

\* rayTracer.TraceRay(ray), with the HitData of every shape recorded
TraceOneRay ==
    /\ pc = "fnReady"
    /\ \E ray \in FnRays, ub \in UbPairs :
          /\ currentRay' = ray
          /\ hitData' = [i \in 1 .. Len(mCurrentScene.mShapes) |->
                            GetHit(mCurrentScene.mShapes[i], ray, ub)]
          /\ pixelColour' = TraceRay(mCurrentScene, ray, ub)
    /\ calls' = Append(calls, "TraceRay")
    /\ pc' = "fnTraced"
    /\ UNCHANGED <<scene, mCurrentScene, procVars, loopVars, colourModifier>>

FnNext ==
    \/ AddRectangle(FnRectangles)
    \/ AddTriangle(FnTriangles)
    \/ AddCircle(FnCircles)
    \/ AddSphere(FnSpheres)
    \/ SetScene
    \/ TraceOneRay

FnSpec == FnInit /\ [][FnNext]_vars

----------------------------------------------------------------------------
(* One shape shaded: a scene of one shape, the shape asked for its hit by  *)
(* a ray, and the scene asked for the colour modifier at the hit point, as *)
(* TraceRay does for the closest shape.                                    *)

ShadeInit ==
    /\ pc = "shade"
    /\ scene \in {AddShape(Scene(l), s) : l \in ShadeLights, s \in ShadeShapes}
    /\ InitCommon

\* currentShape->GetHit(ray)
HitShape ==
    /\ pc = "shade"
    /\ \E ray \in ShadeRays, ub \in UbPairs :
          /\ currentRay' = ray
          /\ hitData' = <<GetHit(scene.mShapes[1], ray, ub)>>
    /\ pc' = "shadeHit"
    /\ UNCHANGED <<calls, scene, mCurrentScene, procVars, loopVars, pixelColour,
                   colourModifier>>

\* scene.GetColourModifier(closestShape, closestHit.mFirstIntersection), for
\* a shape that was hit
ShadeHit ==
    /\ pc = "shadeHit"
    /\ hitData[1].mHit
    /\ colourModifier' = SceneGetColourModifier(scene, scene.mShapes[1],
                                                hitData[1].mFirstIntersection)
    /\ pc' = "shaded"
    /\ UNCHANGED <<calls, scene, mCurrentScene, procVars, loopVars, currentRay, hitData,
                   pixelColour>>

ShadeNext ==
    \/ HitShape
    \/ ShadeHit

ShadeSpec == ShadeInit /\ [][ShadeNext]_vars

----------------------------------------------------------------------------
(* Properties of a traced ray: the state after TraceOneRay holds the scene *)
(* in mCurrentScene, the ray in currentRay, what GetHit gave for every     *)
(* shape in hitData and what TraceRay returned in pixelColour.             *)

Traced == pc = "fnTraced"

FAbs(a) == <<Abs(a[1]), a[2]>>

ShapeAt(i) == mCurrentScene.mShapes[i]

Shapes == DOMAIN hitData

Hitting == {i \in Shapes : hitData[i].mHit}

\* the square of the distance from the ray origin to the hit point of shape i
HitDistance2(i) == Len2(VSub(hitData[i].mFirstIntersection, currentRay.mOrigin))

\* colour * modifier of shape i at its hit point
ShadedColour(i) ==
    VScale(ShapeAt(i).mColour,
           GetColourModifier(ShapeAt(i), mCurrentScene.mLightDirection,
                             hitData[i].mFirstIntersection))

\* shape i hits and no other hit is closer, nor an earlier one as close
NearestFirst(i) ==
    /\ i \in Hitting
    /\ \A j \in Hitting \ {i} : FLe(HitDistance2(i), HitDistance2(j))
    /\ \A j \in Hitting : j < i => FLt(HitDistance2(i), HitDistance2(j))

\* C1: TraceRay returns black when no shape reports a hit, and otherwise
\* colour * modifier of the hitting shape nearest to the ray origin, the
\* earliest in the list among those at the minimal distance.
C1_TraceRayNearestHit ==
    Traced =>
        IF Hitting = {} THEN pixelColour = Zero3
        ELSE \E i \in Hitting : NearestFirst(i) /\ pixelColour = ShadedColour(i)

\* The selection of C1 where every reported hit point is a finite point.
NearestHitOfFiniteHits ==
    (Traced /\ \A i \in Hitting : VFinite(hitData[i].mFirstIntersection)) =>
        IF Hitting = {} THEN pixelColour = Zero3
        ELSE \E i \in Hitting : NearestFirst(i) /\ pixelColour = ShadedColour(i)

\* the vertices of a flat shape, or of the square around a circle
Corners(shape) ==
    CASE shape.kind = "Rectangle" ->
            {<<FAdd(shape.mPos[1], FMul(Q(sx, 2), shape.mWidth)),
               FAdd(shape.mPos[2], FMul(Q(sy, 2), shape.mHeight)),
               shape.mPos[3]>> : sx \in {-1, 1}, sy \in {-1, 1}}
      [] shape.kind = "Circle" ->
            {<<FAdd(shape.mPos[1], FMul(F(sx), shape.mRadius)),
               FAdd(shape.mPos[2], FMul(F(sy), shape.mRadius)),
               shape.mPos[3]>> : sx \in {-1, 1}, sy \in {-1, 1}}
      [] shape.kind = "Triangle" ->
            {<<FAdd(shape.mPos[1], v[1]), FAdd(shape.mPos[2], v[2]), shape.mPos[3]>> :
                v \in {shape.mAPos, shape.mBPos, shape.mCPos}}
      [] OTHER -> {}

\* every point p of the shape has (p - origin).direction < 0, for a unit
\* direction; the ray origin is then strictly outside the shape
BehindRay(shape, ray) ==
    IF shape.kind = "Sphere"
    THEN FLt(FAdd(Dot(VSub(shape.mPos, ray.mOrigin), ray.mDirection), FAbs(shape.mRadius)),
             F(0))
    ELSE \A p \in Corners(shape) : FLt(Dot(VSub(p, ray.mOrigin), ray.mDirection), F(0))

\* C2: a ray whose direction points away from every shape of the scene
\* returns black, and no shape reports a hit.
C2_AwayRayIsBlack ==
    (Traced /\ \A i \in Shapes : BehindRay(ShapeAt(i), currentRay)) =>
        /\ pixelColour = Zero3
        /\ Hitting = {}

\* the distance to the centre of a sphere the unit direction of the ray
\* points at exactly
AlongRay(sphere, ray) == Dot(VSub(sphere.mPos, ray.mOrigin), ray.mDirection)

AimedAtCentre(sphere, ray) ==
    /\ FLt(F(0), AlongRay(sphere, ray))
    /\ VScale(ray.mDirection, AlongRay(sphere, ray)) = VSub(sphere.mPos, ray.mOrigin)

\* C3: a ray aimed at the centre of a sphere of radius r > 0 from outside
\* it hits, at the distance distance(origin, centre) - r from the origin.
C3_CentreHitDistance ==
    Traced =>
        \A i \in Shapes :
            (/\ ShapeAt(i).kind = "Sphere"
             /\ FLt(F(0), ShapeAt(i).mRadius)
             /\ AimedAtCentre(ShapeAt(i), currentRay)
             /\ FLt(ShapeAt(i).mRadius, AlongRay(ShapeAt(i), currentRay)))
            => /\ hitData[i].mHit
               /\ HitDistance2(i) =
                    FMul(FSub(AlongRay(ShapeAt(i), currentRay), ShapeAt(i).mRadius),
                         FSub(AlongRay(ShapeAt(i), currentRay), ShapeAt(i).mRadius))

\* the origin is in the ball: distance(origin, centre) <= radius
InsideSphere(sphere, point) ==
    /\ FGe(sphere.mRadius, F(0))
    /\ FLe(Len2(VSub(point, sphere.mPos)), FMul(sphere.mRadius, sphere.mRadius))

\* the origin is on the plane of the circle, within radius of its centre
InsideCircle(circle, point) ==
    /\ point[3] = circle.mPos[3]
    /\ FGe(circle.mRadius, F(0))
    /\ FLe(Len2(VSub(point, circle.mPos)), FMul(circle.mRadius, circle.mRadius))

\* C4, as claimed: neither a Sphere nor a Circle reports a hit for a ray
\* whose origin lies inside it, whatever the direction.
C4_OriginInsideRejected ==
    Traced =>
        \A i \in Shapes :
            (\/ ShapeAt(i).kind = "Sphere" /\ InsideSphere(ShapeAt(i), currentRay.mOrigin)
             \/ ShapeAt(i).kind = "Circle" /\ InsideCircle(ShapeAt(i), currentRay.mOrigin))
            => ~hitData[i].mHit

\* C4, as the code has it: a Sphere reports no hit for a ray whose origin
\* lies inside it, whatever the direction; a Circle has no such test, and
\* for an origin inside it reports a hit at the origin itself unless the ray
\* is parallel to its plane.
C4_OriginInsideSphereRejected ==
    Traced =>
        \A i \in Shapes :
            /\ (ShapeAt(i).kind = "Sphere" /\ InsideSphere(ShapeAt(i), currentRay.mOrigin))
                => ~hitData[i].mHit
            /\ (ShapeAt(i).kind = "Circle" /\ InsideCircle(ShapeAt(i), currentRay.mOrigin))
                => IF currentRay.mDirection[3] = F(0) THEN ~hitData[i].mHit
                   ELSE hitData[i] = HitData(TRUE, currentRay.mOrigin)

\* a ray from inside a sphere, aimed at its centre, has been traced
C4_Witness ==
    /\ Traced
    /\ \E i \in Shapes :
          /\ ShapeAt(i).kind = "Sphere"
          /\ InsideSphere(ShapeAt(i), currentRay.mOrigin)
          /\ AimedAtCentre(ShapeAt(i), currentRay)
          /\ ~hitData[i].mHit

\* the line of the ray meets the plane z in one point
Crosses(ray) == IsFinite(ray.mDirection[3]) /\ ray.mDirection[3] # F(0)

\* that point, for a ray that crosses
PlaneCrossing(ray, z) ==
    <<FAdd(ray.mOrigin[1],
           FDiv(FMul(ray.mDirection[1], FSub(z, ray.mOrigin[3])), ray.mDirection[3])),
      FAdd(ray.mOrigin[2],
           FDiv(FMul(ray.mDirection[2], FSub(z, ray.mOrigin[3])), ray.mDirection[3])),
      z>>

\* |x - centre.x| <= width / 2 and |y - centre.y| <= height / 2
WithinRectangle(point, rect) ==
    /\ FLe(FMul(F(2), FAbs(FSub(point[1], rect.mPos[1]))), rect.mWidth)
    /\ FLe(FMul(F(2), FAbs(FSub(point[2], rect.mPos[2]))), rect.mHeight)

OnRectangleEdge(point, rect) ==
    \/ FMul(F(2), FAbs(FSub(point[1], rect.mPos[1]))) = rect.mWidth
    \/ FMul(F(2), FAbs(FSub(point[2], rect.mPos[2]))) = rect.mHeight

\* C5: a Rectangle reports a hit if and only if the point where the line of
\* the ray crosses its z-plane has x within [centre.x - width/2, centre.x +
\* width/2] and y within [centre.y - height/2, centre.y + height/2], the
\* four bounds included, and the hit point reported is that crossing point.
C5_RectangleInclusive ==
    Traced =>
        \A i \in Shapes :
            ShapeAt(i).kind = "Rectangle" =>
                /\ hitData[i].mHit <=>
                     /\ Crosses(currentRay)
                     /\ WithinRectangle(PlaneCrossing(currentRay, ShapeAt(i).mPos[3]),
                                        ShapeAt(i))
                /\ hitData[i].mHit =>
                     hitData[i].mFirstIntersection =
                        PlaneCrossing(currentRay, ShapeAt(i).mPos[3])

\* a rectangle of positive size has been hit exactly on an edge
C5_Witness ==
    /\ Traced
    /\ \E i \in Shapes :
          /\ ShapeAt(i).kind = "Rectangle"
          /\ FLt(F(0), ShapeAt(i).mWidth)
          /\ FLt(F(0), ShapeAt(i).mHeight)
          /\ hitData[i].mHit
          /\ OnRectangleEdge(hitData[i].mFirstIntersection, ShapeAt(i))

\* twice the area of the triangle a b c, on the coordinates as they are
Area2(a, b, c) ==
    FAbs(FAdd(FAdd(FMul(a[1], FSub(b[2], c[2])), FMul(b[1], FSub(c[2], a[2]))),
              FMul(c[1], FSub(a[2], b[2]))))

\* area(ABC) = area(PBC) + area(PAC) + area(PAB)
InsideTriangle(p, a, b, c) ==
    Area2(a, b, c) = FAdd(FAdd(Area2(p, b, c), Area2(a, p, c)), Area2(a, b, p))

VertexA(triangle) == V2Add(triangle.mAPos, <<triangle.mPos[1], triangle.mPos[2]>>)
VertexB(triangle) == V2Add(triangle.mBPos, <<triangle.mPos[1], triangle.mPos[2]>>)
VertexC(triangle) == V2Add(triangle.mCPos, <<triangle.mPos[1], triangle.mPos[2]>>)

\* C6: a Triangle reports a hit if and only if the point P where the ray
\* crosses its plane is inside or on the triangle, the area equation being
\* evaluated on the actual coordinates of P, A, B and C.
C6_TriangleAreaTest ==
    Traced =>
        \A i \in Shapes :
            ShapeAt(i).kind = "Triangle" =>
                (hitData[i].mHit <=>
                    /\ Crosses(currentRay)
                    /\ InsideTriangle(PlaneCrossing(currentRay, ShapeAt(i).mPos[3]),
                                      VertexA(ShapeAt(i)), VertexB(ShapeAt(i)),
                                      VertexC(ShapeAt(i))))

\* zero or negative radius, zero width or height, zero area
Degenerate(shape) ==
    CASE shape.kind \in {"Sphere", "Circle"} -> FLe(shape.mRadius, F(0))
      [] shape.kind = "Rectangle" -> shape.mWidth = F(0) \/ shape.mHeight = F(0)
      [] shape.kind = "Triangle" ->
            Area2(VertexA(shape), VertexB(shape), VertexC(shape)) = F(0)

\* C7: a degenerate shape is never hit, by any ray.
C7_DegenerateNeverHit ==
    Traced => \A i \in Shapes : Degenerate(ShapeAt(i)) => ~hitData[i].mHit

\* C8: a Rectangle, Circle or Triangle is never hit by a ray parallel to its
\* z-plane (direction.z = 0).
C8_ParallelNeverHits ==
    Traced =>
        \A i \in Shapes :
            (ShapeAt(i).kind # "Sphere" /\ currentRay.mDirection[3] = F(0))
            => ~hitData[i].mHit

----------------------------------------------------------------------------
(* Properties of main *)

Drawing == {"SetBackground", "DrawPixel", "ShowAndHold"}

Adding == {"AddRectangle", "AddTriangle", "AddCircle", "AddSphere"}

\* C9: MCG::Init is the first call of main.  If it returns false main
\* returns a non-zero status at once: nothing is drawn or shown and the
\* console never prompts.  If it returns true, main returns what the one
\* call of MCG::ShowAndHold, the last call of all, returned.
C9_InitFailureFatal ==
    /\ calls # <<>> => calls[1] = "Init"
    /\ mcgInit = "uncalled" => ~prompted /\ pc = "init"
    /\ mcgInit = "false" =>
          /\ pc = "exit"
          /\ exitCode # 0
          /\ calls = <<"Init">>
          /\ ~prompted
          /\ showAndHold = <<>>
    /\ \A i \in 1 .. Len(calls) : calls[i] = "ShowAndHold" => i = Len(calls) /\ pc = "exit"
    /\ (mcgInit = "true" /\ pc = "exit") =>
          /\ Len(showAndHold) = 1
          /\ exitCode = showAndHold[1]
          /\ calls[Len(calls)] = "ShowAndHold"

\* main has returned after MCG::Init failed
C9_Witness == pc = "exit" /\ mcgInit = "false" /\ exitCode = -1

\* every Add... call precedes the first TraceRay call
AddsBeforeTraces ==
    \A i, j \in 1 .. Len(calls) : (calls[i] = "TraceRay" /\ i < j) => calls[j] \notin Adding

\* every pixel the render loop has drawn holds what tracing its ray gives
\* now, whatever an undefined conversion yields
RetraceAgrees ==
    \A p \in Pixels :
        drawn[p] > 0 =>
            \A ub \in UbPairs :
                frame[p] = TraceRay(mCurrentScene, GetRay(Camera(windowSize, viewingSize), p), ub)

\* a step that traces a ray leaves main's scene and the tracer's scene as
\* they are
TraceKeepsScene ==
    (Len(calls') > Len(calls) /\ "TraceRay" \in Range(SubSeq(calls', Len(calls) + 1, Len(calls'))))
        => (mCurrentScene' = mCurrentScene /\ scene' = scene)

\* C10: in main every AddRectangle/AddTriangle/AddCircle/AddSphere call
\* precedes the first TraceRay call, a TraceRay call leaves the shape list
\* and the light direction unchanged, and so tracing the ray of a pixel
\* again gives the colour drawn for it.
C10_SceneBuiltThenReadOnly ==
    /\ [](AddsBeforeTraces /\ RetraceAgrees)
    /\ [][TraceKeepsScene]_vars

\* the render loop has finished for a scene with shapes, one of them seen
C10_Witness ==
    /\ pc = "exit"
    /\ mCurrentScene.mShapes # <<>>
    /\ \A p \in Pixels : drawn[p] = 1
    /\ \E p \in Pixels : frame[p] # Zero3
    /\ \E i \in 1 .. Len(calls) : calls[i] \in Adding

----------------------------------------------------------------------------
(* Properties of shading *)

Shaded == pc = "shaded"

ShadedShape == scene.mShapes[1]

\* the normal of the shape at its hit point, not normalized
NormalAtHit ==
    IF ShadedShape.kind = "Sphere"
    THEN VSub(hitData[1].mFirstIntersection, ShadedShape.mPos)
    ELSE V3(0, 0, -1)

Cross(u, v) ==
    <<FSub(FMul(u[2], v[3]), FMul(u[3], v[2])),
      FSub(FMul(u[3], v[1]), FMul(u[1], v[3])),
      FSub(FMul(u[1], v[2]), FMul(u[2], v[1]))>>

\* same direction, opposite direction
Parallel(u, v) == Cross(u, v) = Zero3 /\ FLt(F(0), Dot(u, v))
Opposite(u, v) == Cross(u, v) = Zero3 /\ FLt(Dot(u, v), F(0))

\* in [0,1], 1 for a light parallel to the normal, 0 for one opposite to it
ModifierAsClaimed ==
    /\ FLe(F(0), colourModifier)
    /\ FLe(colourModifier, F(1))
    /\ Parallel(scene.mLightDirection, NormalAtHit) => colourModifier = F(1)
    /\ Opposite(scene.mLightDirection, NormalAtHit) => colourModifier = F(0)

\* C11: for every shape variant and every non-zero light direction the
\* colour modifier at the hit point is in [0,1], 1 when the light direction
\* is parallel to the normal there and 0 when it is opposite, the normal
\* being normalize(hit point - centre) for a Sphere and (0,0,-1) for a
\* Rectangle, Circle or Triangle.
C11_ModifierRange ==
    (Shaded /\ scene.mLightDirection # Zero3) => ModifierAsClaimed

\* The same where the hit point of a sphere is not its centre.
ModifierOffCentre ==
    (/\ Shaded
     /\ scene.mLightDirection # Zero3
     /\ NormalAtHit # Zero3)
    => ModifierAsClaimed

\* the modifier of a flat shape is that of any other hit point
FlatModifierFixed ==
    (Shaded /\ ShadedShape.kind # "Sphere") =>
        \A ray \in ShadeRays :
            colourModifier =
                SceneGetColourModifier(scene, ShadedShape, ray.mOrigin)

----------------------------------------------------------------------------
(* Properties of the render loop *)

CentrePixel == <<windowSize[1] \div 2, windowSize[2] \div 2>>

\* the render loop is over: its condition has failed, or main has returned
\* from MCG::ShowAndHold
LoopFinished ==
    \/ pc = "render" /\ x >= WinW
    \/ pc = "exit" /\ mcgInit = "true"

\* pixel p comes before the pixel the loop is at
BeforeLoopPosition(p) == p[1] < x \/ (p[1] = x /\ p[2] < y)

\* the loop has drawn the pixels before its position once and no other
DrawnInOrder ==
    pc = "render" =>
        \A p \in Pixels : drawn[p] = (IF BeforeLoopPosition(p) THEN 1 ELSE 0)

\* every pixel of the window was drawn once and holds the colour of its own
\* ray, the pixel at the centre included
FrameComplete ==
    LoopFinished =>
        \A p \in Pixels :
            /\ drawn[p] = 1
            /\ \A ub \in UbPairs :
                  frame[p] = TraceRay(mCurrentScene,
                                      GetRay(Camera(windowSize, viewingSize), p), ub)

\* a step of the render loop draws the pixel at the loop counters, which is
\* a pixel of the window, with the colour just traced, and no other
LoopDrawsOwnPixel ==
    (pc = "render" /\ drawn' # drawn) =>
        /\ <<x, y>> \in Pixels
        /\ currentRay' = GetRay(Camera(windowSize, viewingSize), <<x, y>>)
        /\ drawn' = [drawn EXCEPT ![<<x, y>>] = @ + 1]
        /\ frame' = [frame EXCEPT ![<<x, y>>] = pixelColour']
        /\ DOMAIN frame' = Pixels

\* C12: when the render loop of main finishes, every pixel of the window has
\* been drawn exactly once by the loop, with the colour TraceRay gives for
\* the ray of its own coordinate, no pixel outside the window is drawn, and
\* the red pixel drawn at the window centre before the scene was set up is
\* overwritten: the frame depends on the scene and the camera only.
C12_EveryPixelOnce ==
    /\ [](DrawnInOrder /\ FrameComplete)
    /\ [][LoopDrawsOwnPixel]_vars

\* main has returned after a render in which the red pixel at the centre
\* was replaced by another colour
C12_Witness ==
    /\ pc = "exit"
    /\ mcgInit = "true"
    /\ drawn[CentrePixel] = 1
    /\ frame[CentrePixel] # V3(1, 0, 0)
    /\ \E p \in Pixels : frame[p] # frame[CentrePixel]

====
